---- MODULE Spec2Model ----
(***************************************************************************)
(* Model of the steam-session transport helpers:                           *)
(*   src/src/transports/websocket/helpers.rs                               *)
(*       connect_to_cm_with_socks5_proxy, wait_for_response                *)
(*   src/src/transports/proxy.rs                                           *)
(*       Socks5ProxyConfig                                                 *)
(*                                                                         *)
(* Strings are sequences of one-character strings.  Option<T> is a        *)
(* sequence of length 0 (None) or 1 (Some(x)).  Result<T, E> is a record  *)
(* [ok |-> TRUE, val |-> v] or [ok |-> FALSE, err |-> e].                  *)
(***************************************************************************)
EXTENDS Integers, Sequences, FiniteSets, TLC

VARIABLES
    pc,         \* connect: position of each caller inside the function
    proxy,      \* connect: the proxy argument of each caller (Option)
    lockOwner,  \* connect: holder of the tokio Mutex around CmListCache, 0 = free
    cmList,     \* connect: the servers held by the shared CmListCache
    refreshed,  \* connect: the list as the caller's refresh left it, kept until its pick (Option)
    cm_server,  \* connect: local cm_server of each caller (Option)
    uri,        \* connect: local uri of each caller (Option)
    steps,      \* connect: the calls each caller has made so far, with their outcome
    result,     \* connect: value returned to each caller (Option<Result>)
    tunnel,     \* connect: arguments of the Socks5Stream connect each caller made (Option)
    wpc,        \* wait: position of each wait_for_response call
    sender,     \* wait: state of each oneshot::Sender
    slot,       \* wait: value stored in each oneshot channel (Option)
    rx,         \* wait: state of each oneshot::Receiver
    elapsed,    \* wait: seconds since each call armed its timeout, up to the deadline
    wres,       \* wait: value returned by each wait_for_response call (Option<Result>)
    config,     \* config: the Socks5ProxyConfig at hand (Option)
    text,       \* config: the string at hand, given or built by proxy_url (Option)
    outcome,    \* config: what from_str returned for the string (Option<Result>)
    shown       \* config: what Display wrote for the config (Option)

connVars == <<pc, proxy, lockOwner, cmList, refreshed, cm_server, uri, steps, result, tunnel>>
waitVars == <<wpc, sender, slot, rx, elapsed, wres>>
cfgVars == <<config, text, outcome, shown>>
vars == <<pc, proxy, lockOwner, cmList, refreshed, cm_server, uri, steps, result, tunnel,
          wpc, sender, slot, rx, elapsed, wres, config, text, outcome, shown>>

----------------------------------------------------------------------------
(* Bounds *)

NumCallers == 2

Callers == 1..NumCallers

NumWaiters == 2

Waiters == 1..NumWaiters

----------------------------------------------------------------------------
(* Option and Result *)

None == <<>>

Some(x) == <<x>>

IsSome(o) == Len(o) = 1

Unwrap(o) == o[1]

Ok(v) == [ok |-> TRUE, val |-> v]

Err(e) == [ok |-> FALSE, err |-> e]

----------------------------------------------------------------------------
(* Strings *)

Contains(s, ch) == \E i \in 1..Len(s) : s[i] = ch

\* str::find(ch): index of the first occurrence, 0 when there is none
Find(s, ch) == IF Contains(s, ch) THEN CHOOSE i \in 1..Len(s) : s[i] = ch /\ \A j \in 1..(i-1) : s[j] # ch ELSE 0

\* str::rfind(ch): index of the last occurrence, 0 when there is none
RFind(s, ch) == IF Contains(s, ch) THEN CHOOSE i \in 1..Len(s) : s[i] = ch /\ \A j \in (i+1)..Len(s) : s[j] # ch ELSE 0

Digits == <<"0", "1", "2", "3", "4", "5", "6", "7", "8", "9">>

IsDigit(ch) == \E d \in 1..10 : Digits[d] = ch

DigitVal(ch) == (CHOOSE d \in 1..10 : Digits[d] = ch) - 1

RECURSIVE ParseNat(_)
ParseNat(s) == IF s = <<>> THEN 0 ELSE 10 * ParseNat(SubSeq(s, 1, Len(s) - 1)) + DigitVal(s[Len(s)])

RECURSIVE NatToStr(_)
\* u16 formatted by Display: decimal digits, no leading zeros
NatToStr(n) == IF n < 10 THEN <<Digits[n + 1]>> ELSE NatToStr(n \div 10) \o <<Digits[(n % 10) + 1]>>

AllDigits(s) == \A i \in 1..Len(s) : IsDigit(s[i])

\* index of the first character of s that is in the set chs, Len(s) + 1 when none is
FirstOf(s, chs) == IF \E i \in 1..Len(s) : s[i] \in chs THEN CHOOSE i \in 1..Len(s) : s[i] \in chs /\ \A j \in 1..(i-1) : s[j] \notin chs ELSE Len(s) + 1

StartsWith(s, p) == Len(s) >= Len(p) /\ SubSeq(s, 1, Len(p)) = p

----------------------------------------------------------------------------
(* Characters: case, hexadecimal digits, ASCII codes, percent-encoding *)

Lower == <<"a", "b", "c", "d", "e", "f", "g", "h", "i", "j", "k", "l", "m", "n", "o", "p", "q", "r", "s", "t", "u", "v", "w", "x", "y", "z">>

Upper == <<"A", "B", "C", "D", "E", "F", "G", "H", "I", "J", "K", "L", "M", "N", "O", "P", "Q", "R", "S", "T", "U", "V", "W", "X", "Y", "Z">>

Letters == {Lower[i] : i \in 1..26} \cup {Upper[i] : i \in 1..26}

DigitChars == {Digits[i] : i \in 1..10}

ToLower(ch) == IF \E i \in 1..26 : Upper[i] = ch THEN Lower[CHOOSE i \in 1..26 : Upper[i] = ch] ELSE ch

LowerCase(s) == [i \in 1..Len(s) |-> ToLower(s[i])]

HexChars == DigitChars \cup {Lower[i] : i \in 1..6} \cup {Upper[i] : i \in 1..6}

HexVal(ch) == IF IsDigit(ch) THEN DigitVal(ch) ELSE 9 + (CHOOSE i \in 1..6 : Lower[i] = ToLower(ch))

HexUpper == <<"0", "1", "2", "3", "4", "5", "6", "7", "8", "9", "A", "B", "C", "D", "E", "F">>

RECURSIVE ParseBase(_, _)
\* the number s writes in base 8, 10 or 16
ParseBase(s, base) == IF s = <<>> THEN 0 ELSE base * ParseBase(SubSeq(s, 1, Len(s) - 1), base) + HexVal(s[Len(s)])

RECURSIVE ToHexLower(_)
\* {:x} of a u16
ToHexLower(n) == IF n < 16 THEN <<ToLower(HexUpper[n + 1])>> ELSE ToHexLower(n \div 16) \o <<ToLower(HexUpper[(n % 16) + 1])>>

\* the characters of codes 0x20..0x7E in order; the place of 0x60 is left empty
Printable ==
    <<" ", "!", "\"", "#", "$", "%", "&", "'", "(", ")", "*", "+", ",", "-", ".", "/",
      "0", "1", "2", "3", "4", "5", "6", "7", "8", "9", ":", ";", "<", "=", ">", "?",
      "@", "A", "B", "C", "D", "E", "F", "G", "H", "I", "J", "K", "L", "M", "N", "O",
      "P", "Q", "R", "S", "T", "U", "V", "W", "X", "Y", "Z", "[", "\\", "]", "^", "_",
      "", "a", "b", "c", "d", "e", "f", "g", "h", "i", "j", "k", "l", "m", "n", "o",
      "p", "q", "r", "s", "t", "u", "v", "w", "x", "y", "z", "{", "|", "}", "~">>

\* the ASCII control characters a string of the model can hold
Controls == {"\t", "\n", "\f", "\r"}

\* the ASCII code of a character
Code(ch) ==
    IF ch = "\t" THEN 9 ELSE IF ch = "\n" THEN 10 ELSE IF ch = "\f" THEN 12 ELSE IF ch = "\r" THEN 13
    ELSE 31 + (CHOOSE i \in 1..95 : Printable[i] = ch)

RECURSIVE PercentEncode(_, _)
\* utf8_percent_encode(s, set) on ASCII text
PercentEncode(s, set) ==
    IF s = <<>> THEN <<>>
    ELSE (IF s[1] \in set THEN <<"%", HexUpper[(Code(s[1]) \div 16) + 1], HexUpper[(Code(s[1]) % 16) + 1]>> ELSE <<s[1]>>)
           \o PercentEncode(SubSeq(s, 2, Len(s)), set)

\* index of the first character of s that is not in the set chs, Len(s) + 1 when all are
FirstNotIn(s, chs) == IF \E i \in 1..Len(s) : s[i] \notin chs THEN CHOOSE i \in 1..Len(s) : s[i] \notin chs /\ \A j \in 1..(i-1) : s[j] \in chs ELSE Len(s) + 1

\* index of the last character of s that is not in the set chs, 0 when all are
LastNotIn(s, chs) == IF \E i \in 1..Len(s) : s[i] \notin chs THEN CHOOSE i \in 1..Len(s) : s[i] \notin chs /\ \A j \in (i+1)..Len(s) : s[j] \in chs ELSE 0

RECURSIVE Split(_, _)
\* str::split(ch)
Split(s, ch) == IF ~Contains(s, ch) THEN <<s>> ELSE <<SubSeq(s, 1, Find(s, ch) - 1)>> \o Split(SubSeq(s, Find(s, ch) + 1, Len(s)), ch)

RECURSIVE Join(_, _)
Join(parts, sep) == IF Len(parts) = 0 THEN <<>> ELSE IF Len(parts) = 1 THEN parts[1] ELSE parts[1] \o sep \o Join(SubSeq(parts, 2, Len(parts)), sep)

\* a decimal number of any length compared with a u16 / u8 limit without overflow
NoLeadingZeros(s) == SubSeq(s, FirstNotIn(s, {"0"}), Len(s))

DecimalAtMost(s, limit, width) == Len(NoLeadingZeros(s)) <= width /\ ParseNat(NoLeadingZeros(s)) <= limit

----------------------------------------------------------------------------
(* url::Url::parse on the strings proxy.rs hands it.  Each of them starts    *)
(* with "socks5" (lines 76, 116-119), so the scheme starts with socks5 and  *)
(* is none of http, https, ws, wss, ftp, file: the host is an opaque host   *)
(* or an IPv6 address, there is no default port, and '\' is no separator.   *)
(* A URL is [scheme, authority, username, password, host, port, path,       *)
(* query, fragment]; authority is whether "//" follows the scheme.  Text is *)
(* ASCII.                                                                   *)

\* percent-encode sets of the url crate
FragmentSet == Controls \cup {" ", "\"", "<", ">"}

QuerySet == Controls \cup {" ", "\"", "#", "<", ">"}

PathSet == FragmentSet \cup {"#", "?", "{", "}"}

UserinfoSet == PathSet \cup {"/", ":", ";", "=", "@", "[", "\\", "]", "^", "|"}

\* characters the url crate refuses in the opaque host of a non-special scheme
ForbiddenHostChars == {"\t", "\n", "\r", " ", "#", "/", ":", "<", ">", "?", "@", "[", "\\", "]", "^", "|"}

\* characters a scheme may consist of; its first is a letter
SchemeChars == Letters \cup DigitChars \cup {"+", "-", "."}

\* what the parser reads after the leading "socks5" of its input: C0 controls
\* and spaces trimmed at the end, tabs and newlines removed throughout
UrlInput(tail) ==
    LET NotTabOrNewline(ch) == ch \notin {"\t", "\n", "\r"}
    IN  SelectSeq(SubSeq(tail, 1, LastNotIn(tail, Controls \cup {" "})), NotTabOrNewline)

\* a group of 1..4 hexadecimal digits
IsHexGroup(g) == Len(g) >= 1 /\ Len(g) <= 4 /\ \A i \in 1..Len(g) : g[i] \in HexChars

\* an IPv4 number inside an IPv6 address: decimal, no leading zero, at most 255
IsV4Octet(g) == g # <<>> /\ AllDigits(g) /\ (Len(g) = 1 \/ g[1] # "0") /\ Len(g) <= 3 /\ ParseNat(g) <= 255

IsV4Quad(g) == LET q == Split(g, ".") IN Len(q) = 4 /\ \A i \in 1..4 : IsV4Octet(q[i])

V4Pieces(g) ==
    LET q == Split(g, ".")
    IN  <<256 * ParseNat(q[1]) + ParseNat(q[2]), 256 * ParseNat(q[3]) + ParseNat(q[4])>>

\* the 16-bit pieces of colon-separated groups; <<-1>> when a group is wrong
Ipv6Groups(groups, v4) ==
    LET n == Len(groups)
        quad == v4 /\ Contains(groups[n], ".")
    IN  IF \E i \in 1..(n - 1) : ~IsHexGroup(groups[i]) THEN <<-1>>
        ELSE IF quad /\ ~IsV4Quad(groups[n]) THEN <<-1>>
        ELSE IF ~quad /\ ~IsHexGroup(groups[n]) THEN <<-1>>
        ELSE [i \in 1..(n - 1) |-> ParseBase(groups[i], 16)] \o (IF quad THEN V4Pieces(groups[n]) ELSE <<ParseBase(groups[n], 16)>>)

\* the 16-bit pieces written by a colon-separated run of groups; the last
\* group may be a dotted quad where v4 allows it
Ipv6Pieces(part, v4) == IF part = <<>> THEN <<>> ELSE Ipv6Groups(Split(part, ":"), v4)

\* index of the first "::" of s, 0 when there is none
FindCompress(s) == IF \E i \in 1..(Len(s) - 1) : s[i] = ":" /\ s[i + 1] = ":" THEN CHOOSE i \in 1..(Len(s) - 1) : s[i] = ":" /\ s[i + 1] = ":" /\ \A j \in 1..(i - 1) : ~(s[j] = ":" /\ s[j + 1] = ":") ELSE 0

\* parse_ipv6addr: the eight pieces of the address; "::" stands for the zero
\* pieces between those at its left and at its right
Ipv6Parse(s) ==
    LET at == FindCompress(s)
        Whole(whole) == IF Len(whole) = 8 /\ \A i \in 1..8 : whole[i] >= 0 THEN Ok(whole) ELSE Err("InvalidIpv6Address")
        Compressed(left, right) ==
            IF (\E i \in 1..Len(left) : left[i] < 0) \/ (\E i \in 1..Len(right) : right[i] < 0) \/ Len(left) + Len(right) > 7
            THEN Err("InvalidIpv6Address")
            ELSE Ok(left \o [i \in 1..(8 - Len(left) - Len(right)) |-> 0] \o right)
    IN  IF at = 0 THEN Whole(Ipv6Pieces(s, TRUE))
        ELSE Compressed(Ipv6Pieces(SubSeq(s, 1, at - 1), FALSE), Ipv6Pieces(SubSeq(s, at + 2, Len(s)), TRUE))

\* the number of zero pieces in a row from index i on
ZeroRun(p, i) == Cardinality({k \in i..8 : \A j \in i..k : p[j] = 0})

\* the address as the url crate writes it: lower-case hexadecimal, the first
\* longest run of two or more zero pieces compressed
Ipv6Write(p) ==
    LET longest == CHOOSE m \in 0..8 : (\E i \in 1..8 : ZeroRun(p, i) = m) /\ \A i \in 1..8 : ZeroRun(p, i) <= m
        start == CHOOSE i \in 1..8 : ZeroRun(p, i) = longest /\ \A j \in 1..(i - 1) : ZeroRun(p, j) < longest
        hex == [i \in 1..8 |-> ToHexLower(p[i])]
    IN  IF longest < 2 THEN Join(hex, <<":">>)
        ELSE Join(SubSeq(hex, 1, start - 1), <<":">>) \o <<":", ":">> \o Join(SubSeq(hex, start + longest, 8), <<":">>)

\* "[" address "]"
Ipv6Host(h) ==
    LET Bracketed(a) == IF a.ok THEN Ok(<<"[">> \o Ipv6Write(a.val) \o <<"]">>) ELSE a
    IN  IF h[Len(h)] # "]" THEN Err("InvalidIpv6Address") ELSE Bracketed(Ipv6Parse(SubSeq(h, 2, Len(h) - 1)))

\* Host::parse_opaque: the host of a scheme that is not special
OpaqueHost(h) ==
    IF h # <<>> /\ h[1] = "[" THEN Ipv6Host(h)
    ELSE IF \E i \in 1..Len(h) : h[i] \in ForbiddenHostChars THEN Err("InvalidDomainCharacter")
    ELSE Ok(PercentEncode(h, Controls))

\* the characters that end the authority
AuthorityStops == {"/", "?", "#"}

\* the user-info before the '@' at index at: name and password split at the first ':'
UserinfoAt(input, at) ==
    LET info == SubSeq(input, 1, at - 1)
        colon == Find(info, ":")
        name == IF colon = 0 THEN info ELSE SubSeq(info, 1, colon - 1)
        word == IF colon = 0 THEN <<>> ELSE SubSeq(info, colon + 1, Len(info))
    IN  IF at = 0 THEN Ok([username |-> <<>>, password |-> None, written |-> FALSE, rest |-> input])
        ELSE IF at = 1 /\ Len(input) > 1 /\ input[2] \in AuthorityStops THEN Err("EmptyHost")
        ELSE Ok([username |-> PercentEncode(name, UserinfoSet),
                 password |-> IF word = <<>> THEN None ELSE Some(PercentEncode(word, UserinfoSet)),
                 written |-> name # <<>> \/ word # <<>>,
                 rest |-> SubSeq(input, at + 1, Len(input))])

\* parse_userinfo: the user-info before the last '@' of the authority, encoded;
\* written is whether the URL gets an '@'
UrlUserinfo(input) == UserinfoAt(input, RFind(SubSeq(input, 1, FirstOf(input, AuthorityStops) - 1), "@"))

RECURSIVE HostEnd(_, _, _)
\* index of the character that ends the host: the first ':' outside square
\* brackets or the end of the authority; Len(s) + 1 when there is none
HostEnd(s, i, inside) ==
    IF i > Len(s) THEN i
    ELSE IF s[i] = ":" /\ ~inside THEN i
    ELSE IF s[i] \in AuthorityStops THEN i
    ELSE HostEnd(s, i + 1, IF s[i] = "[" THEN TRUE ELSE IF s[i] = "]" THEN FALSE ELSE inside)

\* parse_port on the text after the ':', the digits ending before index n
UrlPort(s) ==
    LET Port(n, digits) ==
            IF ~DecimalAtMost(digits, 65535, 5) THEN Err("InvalidPort")
            ELSE IF n <= Len(s) /\ s[n] \notin {"/", "\\", "?", "#"} THEN Err("InvalidPort")
            ELSE Ok([port |-> IF digits = <<>> THEN None ELSE Some(ParseNat(NoLeadingZeros(digits))),
                     rest |-> SubSeq(s, n, Len(s))])
    IN  Port(FirstNotIn(s, DigitChars), SubSeq(s, 1, FirstNotIn(s, DigitChars) - 1))

IsSingleDot(seg) == LowerCase(seg) \in { <<".">>, <<"%", "2", "e">> }

IsDoubleDot(seg) == LowerCase(seg) \in { <<".", ".">>, <<".", "%", "2", "e">>, <<"%", "2", "e", ".">>, <<"%", "2", "e", "%", "2", "e">> }

RECURSIVE PathSegments(_, _)
\* the segments of a path, dot segments resolved, onto the segments so far:
\* ".." drops the last of them, "." none, and either leaves an empty segment
\* when it ends the path
PathSegments(segs, sofar) ==
    LET last == Len(segs) = 1
        Push(seg) ==
            IF IsDoubleDot(seg) THEN SubSeq(sofar, 1, Len(sofar) - 1) \o (IF last THEN << <<>> >> ELSE <<>>)
            ELSE IF IsSingleDot(seg) THEN sofar \o (IF last THEN << <<>> >> ELSE <<>>)
            ELSE sofar \o <<seg>>
    IN  IF Len(segs) = 0 THEN sofar
        ELSE PathSegments(SubSeq(segs, 2, Len(segs)), Push(PercentEncode(segs[1], PathSet)))

\* the path of a URL that has an authority or a path starting with '/'
UrlPath(raw) ==
    IF raw = <<>> THEN <<>>
    ELSE <<"/">> \o Join(PathSegments(Split(IF raw[1] = "/" THEN SubSeq(raw, 2, Len(raw)) ELSE raw, "/"), <<>>), <<"/">>)

\* path and query of what stands before the fragment
TailBefore(before, fragment, opaque) ==
    LET mark == Find(before, "?")
        raw == IF mark = 0 THEN before ELSE SubSeq(before, 1, mark - 1)
    IN  [path |-> IF opaque THEN PercentEncode(raw, Controls) ELSE UrlPath(raw),
         query |-> IF mark = 0 THEN None ELSE Some(PercentEncode(SubSeq(before, mark + 1, Len(before)), QuerySet)),
         fragment |-> fragment]

\* path, query and fragment of what follows the authority (or the scheme, when
\* there is no authority); opaque is a path that does not start at a '/'
UrlTail(rest, opaque) ==
    LET hash == Find(rest, "#")
    IN  TailBefore(IF hash = 0 THEN rest ELSE SubSeq(rest, 1, hash - 1),
                   IF hash = 0 THEN None ELSE Some(PercentEncode(SubSeq(rest, hash + 1, Len(rest)), FragmentSet)),
                   opaque)

\* what a parsed authority and the text after it add to the scheme; an empty
\* host goes with neither a port nor user-info
AuthorityParts(info, colon, host, port) ==
    LET Parts(tail) ==
            Ok([authority |-> TRUE,
                username |-> info.username, password |-> info.password,
                host |-> IF host.val = <<>> THEN None ELSE Some(host.val),
                port |-> port.val.port,
                path |-> tail.path, query |-> tail.query, fragment |-> tail.fragment])
    IN  IF ~host.ok THEN host
        ELSE IF host.val = <<>> /\ colon THEN Err("EmptyHost")
        ELSE IF ~port.ok THEN port
        ELSE IF host.val = <<>> /\ info.written THEN Err("EmptyHost")
        ELSE Parts(UrlTail(port.val.rest, FALSE))

\* host and port of the text after the user-info, the host ending before index stop
AuthorityHost(info, stop) ==
    LET after == info.rest
        colon == stop <= Len(after) /\ after[stop] = ":"
    IN  AuthorityParts(info, colon,
                       OpaqueHost(SubSeq(after, 1, stop - 1)),
                       IF colon THEN UrlPort(SubSeq(after, stop + 1, Len(after)))
                       ELSE Ok([port |-> None, rest |-> SubSeq(after, stop, Len(after))]))

AfterUserinfo(info) ==
    IF ~info.ok THEN info
    ELSE AuthorityHost(info.val, HostEnd(info.val.rest, 1, FALSE))

\* after "//": user-info, host, port, and then the path
UrlParseAuthority(input) == AfterUserinfo(UrlUserinfo(input))

\* what follows "scheme:": an authority after "//", a path otherwise
UrlAfterScheme(rest) ==
    LET Parts(tail) ==
            Ok([authority |-> FALSE, username |-> <<>>, password |-> None,
                host |-> None, port |-> None,
                path |-> tail.path, query |-> tail.query, fragment |-> tail.fragment])
    IN  IF StartsWith(rest, <<"/", "/">>) THEN UrlParseAuthority(SubSeq(rest, 3, Len(rest)))
        ELSE Parts(UrlTail(rest, rest = <<>> \/ rest[1] # "/"))

Socks5 == <<"s", "o", "c", "k", "s", "5">>

Socks5h == <<"s", "o", "c", "k", "s", "5", "h">>

\* input is what the parser reads after "socks5"; the scheme is "socks5" and
\* what stands before the ':' at index colon, in lower case
UrlParseScheme(input, colon) ==
    LET Url(scheme, parts) ==
            IF ~parts.ok THEN parts
            ELSE Ok([scheme |-> scheme, authority |-> parts.val.authority,
                     username |-> parts.val.username, password |-> parts.val.password,
                     host |-> parts.val.host, port |-> parts.val.port,
                     path |-> parts.val.path, query |-> parts.val.query, fragment |-> parts.val.fragment])
    IN  IF colon > Len(input) \/ input[colon] # ":" THEN Err("RelativeUrlWithoutBase")
        ELSE Url(Socks5 \o LowerCase(SubSeq(input, 1, colon - 1)), UrlAfterScheme(SubSeq(input, colon + 1, Len(input))))

\* Url::parse(s), without a base URL, of the string s that is "socks5" and then tail
ParseSocks5Url(tail) == UrlParseScheme(UrlInput(tail), FirstNotIn(UrlInput(tail), SchemeChars))

\* Url::as_str; a URL without authority whose path starts with "//" has "/."
\* written before the path
UrlString(url) ==
    url.scheme \o <<":">>
      \o (IF url.authority
          THEN <<"/", "/">>
                 \o (IF url.username # <<>> \/ IsSome(url.password)
                     THEN url.username \o (IF IsSome(url.password) THEN <<":">> \o Unwrap(url.password) ELSE <<>>) \o <<"@">>
                     ELSE <<>>)
                 \o (IF IsSome(url.host) THEN Unwrap(url.host) ELSE <<>>)
                 \o (IF IsSome(url.port) THEN <<":">> \o NatToStr(Unwrap(url.port)) ELSE <<>>)
          ELSE IF StartsWith(url.path, <<"/", "/">>) THEN <<"/", ".">>
          ELSE <<>>)
      \o url.path
      \o (IF IsSome(url.query) THEN <<"?">> \o Unwrap(url.query) ELSE <<>>)
      \o (IF IsSome(url.fragment) THEN <<"#">> \o Unwrap(url.fragment) ELSE <<>>)

----------------------------------------------------------------------------
(* Socks5ProxyConfig (proxy.rs) *)

new(host, port) == [host |-> host, port |-> port, username |-> None, password |-> None, remote_dns |-> TRUE]

with_remote_dns(cfg, remote_dns) == [cfg EXCEPT !.remote_dns = remote_dns]

with_credentials(cfg, username, password) == [cfg EXCEPT !.username = Some(username), !.password = Some(password)]

\* (username filtered to None when empty, password as it is)
\* credentials() handing out the stored username even when it is empty
credentials_KeepsEmpty(cfg) == << cfg.username, cfg.password >>

credentials(cfg) == << IF IsSome(cfg.username) /\ Unwrap(cfg.username) # <<>> THEN cfg.username ELSE None, cfg.password >>

proxy_addr(cfg) == <<cfg.host, cfg.port>>

SchemeOf(cfg) == IF cfg.remote_dns THEN Socks5h ELSE Socks5

\* lines 74-92: the URL of "{scheme}://{host}:{port}", scheme being socks5 or
\* socks5h; set_username and set_password fail on a URL without a host, encode
\* what they are given, and an empty password is no password
proxy_url(cfg) ==
    LET named == IsSome(cfg.username) /\ Unwrap(cfg.username) # <<>>
        SetCredentials(parsed) ==
            IF ~parsed.ok THEN Err("Url")
            ELSE IF named /\ ~IsSome(parsed.val.host) THEN Err("InvalidUsername")
            ELSE IF IsSome(cfg.password) /\ ~IsSome(parsed.val.host) THEN Err("InvalidPassword")
            ELSE Ok([parsed.val EXCEPT
                       !.username = IF named THEN PercentEncode(Unwrap(cfg.username), UserinfoSet) ELSE @,
                       !.password = IF ~IsSome(cfg.password) THEN @
                                    ELSE IF Unwrap(cfg.password) = <<>> THEN None
                                    ELSE Some(PercentEncode(Unwrap(cfg.password), UserinfoSet))])
    IN  SetCredentials(ParseSocks5Url((IF cfg.remote_dns THEN <<"h">> ELSE <<>>)
                                         \o <<":", "/", "/">> \o cfg.host \o <<":">> \o NatToStr(cfg.port)))

\* lines 95-104.  reqwest::Proxy::all and Client::builder().build() accept every
\* socks5/socks5h URL proxy_url yields; built is whether the HTTP stack could
\* build the client.
build_reqwest_client(cfg, built) ==
    LET Client(url) ==
            IF ~url.ok THEN url
            ELSE IF ~built THEN Err("Reqwest")
            ELSE Ok([proxy |-> url.val])
    IN  Client(proxy_url(cfg))

----------------------------------------------------------------------------
(* http::Uri, as helpers.rs uses it on "wss://{endpoint}/cmsocket/".  A URI  *)
(* is [scheme (Option), authority (Option), path, query (Option)].          *)

\* bytes http::Uri refuses in the authority, '%' apart, which it lets pass in the user-info
UriInvalidChars == Controls \cup {" ", "\"", "<", ">", "\\", "^", "{", "|", "}"}

\* bytes http::Uri accepts in the path
UriPathChars == (Letters \cup DigitChars \cup {Printable[i] : i \in 1..95}) \ (Controls \cup {"", " ", "#", "<", ">", "?"})

\* bytes http::Uri accepts in the query
UriQueryChars == (Letters \cup DigitChars \cup {Printable[i] : i \in 1..95}) \ (Controls \cup {"", " ", "\"", "#", "<", ">"})

Http == <<"h", "t", "t", "p">>

Https == <<"h", "t", "t", "p", "s">>

\* MAX_SCHEME_LEN
MaxSchemeLen == 64

\* MAX_LEN, u16::MAX - 1
MaxUriLen == 65534

\* Scheme2::parse: [name (Option), skip], skip being the length of "name://",
\* or -1 for a scheme that is too long
UriScheme(s) ==
    LET Other(i) ==
            IF Len(s) > 3 /\ i + 2 <= Len(s) /\ s[i] = ":" /\ SubSeq(s, i + 1, i + 2) = <<"/", "/">>
            THEN (IF i - 1 > MaxSchemeLen THEN [name |-> None, skip |-> -1]
                  ELSE [name |-> Some(SubSeq(s, 1, i - 1)), skip |-> i + 2])
            ELSE [name |-> None, skip |-> 0]
    IN  IF StartsWith(LowerCase(s), Http \o <<":", "/", "/">>) THEN [name |-> Some(Http), skip |-> 7]
        ELSE IF StartsWith(LowerCase(s), Https \o <<":", "/", "/">>) THEN [name |-> Some(Https), skip |-> 8]
        ELSE Other(FirstNotIn(s, SchemeChars))

RECURSIVE AuthorityScan(_, _, _)
\* Authority::parse: the bytes up to the first '/', '?' or '#', with the count
\* of colons and the '%' seen since the last '@' or ']', the brackets, and the
\* place of the last '@'
AuthorityScan(s, i, st) ==
    IF i > Len(s) \/ s[i] \in {"/", "?", "#"} THEN [st EXCEPT !.end = i - 1]
    ELSE IF s[i] = ":" THEN (IF st.colons >= 8 THEN [st EXCEPT !.ok = FALSE] ELSE AuthorityScan(s, i + 1, [st EXCEPT !.colons = @ + 1]))
    ELSE IF s[i] = "[" THEN (IF st.percent \/ st.open THEN [st EXCEPT !.ok = FALSE] ELSE AuthorityScan(s, i + 1, [st EXCEPT !.open = TRUE]))
    ELSE IF s[i] = "]" THEN (IF ~st.open \/ st.closed THEN [st EXCEPT !.ok = FALSE] ELSE AuthorityScan(s, i + 1, [st EXCEPT !.closed = TRUE, !.colons = 0, !.percent = FALSE]))
    ELSE IF s[i] = "@" THEN AuthorityScan(s, i + 1, [st EXCEPT !.at = i, !.colons = 0, !.percent = FALSE])
    ELSE IF s[i] = "%" THEN AuthorityScan(s, i + 1, [st EXCEPT !.percent = TRUE])
    ELSE IF s[i] \in UriInvalidChars THEN [st EXCEPT !.ok = FALSE]
    ELSE AuthorityScan(s, i + 1, st)

\* the length of the authority s starts with, -1 when it is refused
UriAuthorityEnd(s) ==
    LET End(st) ==
            IF ~st.ok \/ st.open # st.closed \/ st.colons > 1 \/ st.percent THEN -1
            ELSE IF st.end > 0 /\ st.at = st.end THEN -1
            ELSE st.end
    IN  End(AuthorityScan(s, 1, [ok |-> TRUE, end |-> 0, colons |-> 0, open |-> FALSE, closed |-> FALSE, percent |-> FALSE, at |-> 0]))

\* PathAndQuery::from_shared: path and query, the fragment cut off
UriPathAndQuery(s) ==
    LET hash == Find(s, "#")
        mark == Find(s, "?")
        Checked(raw, asked, queried) ==
            IF \E i \in 1..Len(raw) : raw[i] \notin UriPathChars THEN Err("InvalidUri")
            ELSE IF queried /\ \E i \in 1..Len(asked) : asked[i] \notin UriQueryChars THEN Err("InvalidUri")
            ELSE Ok([path |-> raw, query |-> IF queried THEN Some(asked) ELSE None])
        After(first, after) ==
            Checked(SubSeq(s, 1, first - 1),
                    IF Find(after, "#") = 0 THEN after ELSE SubSeq(after, 1, Find(after, "#") - 1),
                    first <= Len(s) /\ s[first] = "?")
        First(first) == After(first, SubSeq(s, first + 1, Len(s)))
    IN  First(IF hash # 0 /\ (mark = 0 \/ hash < mark) THEN hash ELSE IF mark # 0 THEN mark ELSE Len(s) + 1)

\* rest is what follows the scheme, its first end bytes the authority; the empty
\* path of a URI with a scheme is "/"
UriAfterAuthority(name, rest, end) ==
    LET Absolute(pq) ==
            IF ~pq.ok THEN pq
            ELSE Ok([scheme |-> name, authority |-> Some(SubSeq(rest, 1, end)),
                     path |-> IF pq.val.path = <<>> THEN <<"/">> ELSE pq.val.path, query |-> pq.val.query])
    IN  IF end < 0 THEN Err("InvalidUri")
        ELSE IF ~IsSome(name)
        THEN (IF end # Len(rest) THEN Err("InvalidUri")
              ELSE Ok([scheme |-> None, authority |-> Some(rest), path |-> <<>>, query |-> None]))
        ELSE IF end = 0 THEN Err("InvalidUri")
        ELSE Absolute(UriPathAndQuery(SubSeq(rest, end + 1, Len(rest))))

UriWithScheme(s, sch) ==
    LET rest == SubSeq(s, sch.skip + 1, Len(s))
    IN  IF sch.skip < 0 THEN Err("InvalidUri")
        ELSE UriAfterAuthority(sch.name, rest, UriAuthorityEnd(rest))

\* connect_addr.parse::<Uri>()
UriParse(s) ==
    LET Origin(whole) ==
            IF whole.ok THEN Ok([scheme |-> None, authority |-> None, path |-> whole.val.path, query |-> whole.val.query]) ELSE whole
    IN  IF Len(s) > MaxUriLen THEN Err("InvalidUri")
        ELSE IF s = <<>> THEN Err("InvalidUri")
        ELSE IF s = <<"*">> THEN Ok([scheme |-> None, authority |-> None, path |-> s, query |-> None])
        ELSE IF s[1] = "/" THEN Origin(UriPathAndQuery(s))
        ELSE UriWithScheme(s, UriScheme(s))

\* uri.host(): the authority after its last '@', up to the ']' when it starts
\* with '[', up to the first ':' otherwise
UriHost(u) ==
    IF ~IsSome(u.authority) THEN None
    ELSE LET auth == Unwrap(u.authority)
             hp == SubSeq(auth, RFind(auth, "@") + 1, Len(auth))
         IN  Some(IF hp # <<>> /\ hp[1] = "[" THEN SubSeq(hp, 1, Find(hp, "]"))
                  ELSE IF Contains(hp, ":") THEN SubSeq(hp, 1, Find(hp, ":") - 1)
                  ELSE hp)

\* u16::from_str: an optional '+' and decimal digits, at most 65535
ParseU16(s) ==
    LET digits == IF s # <<>> /\ s[1] = "+" THEN SubSeq(s, 2, Len(s)) ELSE s
    IN  IF digits = <<>> \/ ~AllDigits(digits) \/ ~DecimalAtMost(digits, 65535, 5) THEN None
        ELSE Some(ParseNat(NoLeadingZeros(digits)))

\* uri.port_u16(): what follows the last ':' of the authority, when it is a u16
UriPort(u) ==
    IF ~IsSome(u.authority) THEN None
    ELSE LET auth == Unwrap(u.authority)
             colon == RFind(auth, ":")
         IN  IF colon = 0 THEN None ELSE ParseU16(SubSeq(auth, colon + 1, Len(auth)))

DefaultPort == 443

\* the Host header: the authority after its first '@', the whole of it when it has none
HostHeader(authority) ==
    LET idx == Find(authority, "@")
    IN  IF idx = 0 THEN authority ELSE SubSeq(authority, idx + 1, Len(authority))

\* bytes a header value may not hold: the control characters but the tab
HeaderInvalidChars == Controls \ {"\t"}

\* Request::builder()...body(()): fails on a header value http refuses
RequestBuild(host, u) ==
    IF \E i \in 1..Len(host) : host[i] \in HeaderInvalidChars THEN Err("Http")
    ELSE Ok([host |-> host, uri |-> u])

ConnectAddr(endpoint) == <<"w", "s", "s", ":", "/", "/">> \o endpoint \o <<"/", "c", "m", "s", "o", "c", "k", "e", "t", "/">>

----------------------------------------------------------------------------
(* Inputs of connect_to_cm_with_socks5_proxy *)

\* endpoints the CM list may hold: a host, and one that is no URI
Endpoints == { <<"a">>, <<" ">> }

ProxyPort == 1080

GoodProxy == new(<<"h">>, ProxyPort)

\* the configurations new / with_credentials / from_str can produce
ProxyConfigs ==
    { GoodProxy,
      with_credentials(GoodProxy, <<"u">>, <<"p">>),
      with_credentials(GoodProxy, <<>>, <<"p">>),
      [GoodProxy EXCEPT !.username = Some(<<"u">>)],
      [GoodProxy EXCEPT !.password = Some(<<"p">>)],
      new(<<" ">>, ProxyPort) }

ProxyArgs == {None} \cup {Some(cfg) : cfg \in ProxyConfigs}

\* the two routes: no proxy, and a well-formed proxy with both credentials
PlainProxyArgs == {None, Some(with_credentials(GoodProxy, <<"u">>, <<"p">>))}

\* exactly one of username / password, as credentials() reports them
PartialCredentials(cfg) == IsSome(credentials(cfg)[1]) # IsSome(credentials(cfg)[2])

----------------------------------------------------------------------------
(* CmListCache: the collaborator behind the lock *)

\* the lists a refresh may leave in the cache
update(list) == SUBSET Endpoints

\* what pick_random_websocket_server may return
pick_random_websocket_server(list) == IF list = {} THEN {None} ELSE {Some(e) : e \in list}

----------------------------------------------------------------------------
(* connect_to_cm_with_socks5_proxy, one action per step *)

Log(c, op, st) == steps' = [steps EXCEPT ![c] = Append(@, [op |-> op, st |-> st])]

\* the pending call at the end of the log completes with st
Settle(log, st) == [log EXCEPT ![Len(log)].st = st]

Return(c, r) == result' = [result EXCEPT ![c] = Some(r)] /\ pc' = [pc EXCEPT ![c] = "done"]

Goto(c, l) == pc' = [pc EXCEPT ![c] = l] /\ UNCHANGED result

RefreshOp(c) == IF IsSome(proxy[c]) THEN "update_with_client" ELSE "update"

\* lines 31-39
BuildClient_Unchecked(c) ==
    /\ pc[c] = "start"
    /\ IF IsSome(proxy[c])
       THEN \E built \in BOOLEAN :
              LET r == build_reqwest_client(Unwrap(proxy[c]), built)
              IN  Log(c, "build_reqwest_client", IF r.ok THEN "ok" ELSE "failed") /\ Goto(c, "lock")
       ELSE Goto(c, "lock") /\ UNCHANGED steps
    /\ UNCHANGED <<proxy, lockOwner, cmList, refreshed, cm_server, uri>>
    /\ UNCHANGED <<tunnel, waitVars, cfgVars>>

\* lines 31-39: the proxied HTTP client is built first; the ? operator returns its error
BuildClient(c) ==
    /\ pc[c] = "start"
    /\ IF IsSome(proxy[c])
       THEN \E built \in BOOLEAN :
              LET r == build_reqwest_client(Unwrap(proxy[c]), built)
              IN  IF r.ok
                  THEN Log(c, "build_reqwest_client", "ok") /\ Goto(c, "lock")
                  ELSE Log(c, "build_reqwest_client", "failed") /\ Return(c, Err("ProxyConfig"))
       ELSE Goto(c, "lock") /\ UNCHANGED steps
    /\ UNCHANGED <<proxy, lockOwner, cmList, refreshed, cm_server, uri>>
    /\ UNCHANGED <<tunnel, waitVars, cfgVars>>

\* line 42: the lock is granted, and the refresh of lines 44-48 is started
Lock(c) ==
    /\ pc[c] = "lock"
    /\ lockOwner = 0
    /\ lockOwner' = c
    /\ Log(c, RefreshOp(c), "pending")
    /\ Goto(c, "update")
    /\ UNCHANGED <<proxy, cmList, refreshed, cm_server, uri>>
    /\ UNCHANGED <<tunnel, waitVars, cfgVars>>

\* Update with the guard dropped as soon as the refresh has succeeded
Update_DropsGuard(c) ==
    /\ pc[c] = "update"
    /\ \/ \E l \in update(cmList) :
            /\ cmList' = l
            /\ refreshed' = [refreshed EXCEPT ![c] = Some(l)]
            /\ steps' = [steps EXCEPT ![c] = Settle(@, "ok")]
            /\ Goto(c, "pick")
            /\ lockOwner' = 0
       \/ /\ steps' = [steps EXCEPT ![c] = Settle(@, "failed")]
          /\ lockOwner' = 0
          /\ Return(c, Err("CmListUpdate"))
          /\ UNCHANGED <<cmList, refreshed>>
    /\ UNCHANGED <<proxy, cm_server, uri>>
    /\ UNCHANGED <<tunnel, waitVars, cfgVars>>

\* Update with the guard leaked when the refresh fails
Update_KeepsGuardOnError(c) ==
    /\ pc[c] = "update"
    /\ \/ \E l \in update(cmList) :
            /\ cmList' = l
            /\ refreshed' = [refreshed EXCEPT ![c] = Some(l)]
            /\ steps' = [steps EXCEPT ![c] = Settle(@, "ok")]
            /\ Goto(c, "pick")
       \/ /\ steps' = [steps EXCEPT ![c] = Settle(@, "failed")]
          /\ Return(c, Err("CmListUpdate"))
          /\ UNCHANGED <<cmList, refreshed>>
    /\ UNCHANGED <<proxy, lockOwner, cm_server, uri>>
    /\ UNCHANGED <<tunnel, waitVars, cfgVars>>

\* lines 44-48: the refresh completes; the ? operator drops the guard on failure
Update(c) ==
    /\ pc[c] = "update"
    /\ \/ \E l \in update(cmList) :
            /\ cmList' = l
            /\ refreshed' = [refreshed EXCEPT ![c] = Some(l)]
            /\ steps' = [steps EXCEPT ![c] = Settle(@, "ok")]
            /\ Goto(c, "pick")
            /\ UNCHANGED lockOwner
       \/ /\ steps' = [steps EXCEPT ![c] = Settle(@, "failed")]
          /\ lockOwner' = 0
          /\ Return(c, Err("CmListUpdate"))
          /\ UNCHANGED <<cmList, refreshed>>
    /\ UNCHANGED <<proxy, cm_server, uri>>
    /\ UNCHANGED <<tunnel, waitVars, cfgVars>>

\* Pick with the guard living on to the end of the function
Pick_HoldsGuard(c) ==
    /\ pc[c] = "pick"
    /\ \E s \in pick_random_websocket_server(cmList) :
          /\ cm_server' = [cm_server EXCEPT ![c] = s]
          /\ IF IsSome(s)
             THEN Log(c, "pick_random_websocket_server", "ok") /\ Goto(c, "parse")
             ELSE Log(c, "pick_random_websocket_server", "failed") /\ Return(c, Err("NoCmServer"))
    /\ refreshed' = [refreshed EXCEPT ![c] = None]
    /\ UNCHANGED <<proxy, lockOwner, cmList, uri>>
    /\ UNCHANGED <<tunnel, waitVars, cfgVars>>

\* Pick with unwrap() in place of ok_or(..)?
Pick_Unwraps(c) ==
    /\ pc[c] = "pick"
    /\ \E s \in pick_random_websocket_server(cmList) :
          /\ cm_server' = [cm_server EXCEPT ![c] = s]
          /\ IF IsSome(s)
             THEN Log(c, "pick_random_websocket_server", "ok") /\ Goto(c, "parse")
             ELSE Log(c, "pick_random_websocket_server", "failed") /\ Return(c, Err("panic"))
    /\ lockOwner' = 0
    /\ refreshed' = [refreshed EXCEPT ![c] = None]
    /\ UNCHANGED <<proxy, cmList, uri>>
    /\ UNCHANGED <<tunnel, waitVars, cfgVars>>

\* lines 50-52: pick, drop the guard at the end of the block, ok_or
Pick(c) ==
    /\ pc[c] = "pick"
    /\ \E s \in pick_random_websocket_server(cmList) :
          /\ cm_server' = [cm_server EXCEPT ![c] = s]
          /\ IF IsSome(s)
             THEN Log(c, "pick_random_websocket_server", "ok") /\ Goto(c, "parse")
             ELSE Log(c, "pick_random_websocket_server", "failed") /\ Return(c, Err("NoCmServer"))
    /\ lockOwner' = 0
    /\ refreshed' = [refreshed EXCEPT ![c] = None]
    /\ UNCHANGED <<proxy, cmList, uri>>
    /\ UNCHANGED <<tunnel, waitVars, cfgVars>>

\* lines 53-54
ParseUri(c) ==
    /\ pc[c] = "parse"
    /\ \E r \in {UriParse(ConnectAddr(Unwrap(cm_server[c])))} :
          IF r.ok
          THEN uri' = [uri EXCEPT ![c] = Some(r.val)] /\ Log(c, "parse_uri", "ok") /\ Goto(c, "authority")
          ELSE UNCHANGED uri /\ Log(c, "parse_uri", "failed") /\ Return(c, Err("InvalidUri"))
    /\ UNCHANGED <<proxy, lockOwner, cmList, refreshed, cm_server>>
    /\ UNCHANGED <<tunnel, waitVars, cfgVars>>

\* line 55
Authority(c) ==
    /\ pc[c] = "authority"
    /\ IF IsSome(Unwrap(uri[c]).authority)
       THEN Log(c, "authority", "ok") /\ Goto(c, "request")
       ELSE Log(c, "authority", "failed") /\ Return(c, Err("UrlNoHostName"))
    /\ UNCHANGED <<proxy, lockOwner, cmList, refreshed, cm_server, uri>>
    /\ UNCHANGED <<tunnel, waitVars, cfgVars>>

\* lines 56-69
BuildRequest(c) ==
    /\ pc[c] = "request"
    /\ LET u == Unwrap(uri[c])
           r == RequestBuild(HostHeader(Unwrap(u.authority)), u)
       IN  IF r.ok
           THEN Log(c, "request", "ok") /\ Goto(c, "route")
           ELSE Log(c, "request", "failed") /\ Return(c, Err("Http"))
    /\ UNCHANGED <<proxy, lockOwner, cmList, refreshed, cm_server, uri>>
    /\ UNCHANGED <<tunnel, waitVars, cfgVars>>

\* the match with the partial-credentials arm missing: the wildcard arm takes them
TunnelChoice_NoPartialArm(username, password) ==
    IF IsSome(username) /\ IsSome(password) THEN "connect_with_password"
    ELSE "connect"

\* the arm of the match of lines 78-88 that (username, password) selects
TunnelChoice(username, password) ==
    IF IsSome(username) /\ IsSome(password) THEN "connect_with_password"
    ELSE IF IsSome(username) # IsSome(password) THEN "reject"
    ELSE "connect"

\* Socks5Stream::connect[_with_password](proxy_addr, (host, port), ..): where the TCP
\* connection goes (proxy_addr), the target the proxy is asked for, the credentials sent
SocksConnect(addr, host, port, creds) ==
    [proxy_addr |-> addr,
     target |-> <<host, IF IsSome(port) THEN Unwrap(port) ELSE DefaultPort>>,
     auth |-> IF IsSome(creds[1]) /\ IsSome(creds[2]) THEN Some(<<Unwrap(creds[1]), Unwrap(creds[2])>>) ELSE None]

\* lines 72-88: the proxied branch up to the start of the tunnel
ProxyRoute(c) ==
    /\ pc[c] = "route"
    /\ IsSome(proxy[c])
    /\ LET cfg == Unwrap(proxy[c])
           host == UriHost(Unwrap(uri[c]))
           creds == credentials(cfg)
           arm == TunnelChoice(creds[1], creds[2])
       IN  IF ~IsSome(host)
           THEN Log(c, "uri_host", "failed") /\ Return(c, Err("UrlNoHostName")) /\ UNCHANGED tunnel
           ELSE IF arm = "reject"
           THEN /\ steps' = [steps EXCEPT ![c] = @ \o << [op |-> "uri_host", st |-> "ok"], [op |-> "credentials", st |-> "failed"] >>]
                /\ Return(c, Err("ProxyConfig"))
                /\ UNCHANGED tunnel
           ELSE /\ steps' = [steps EXCEPT ![c] = @ \o << [op |-> "uri_host", st |-> "ok"], [op |-> "credentials", st |-> "ok"], [op |-> arm, st |-> "pending"] >>]
                /\ tunnel' = [tunnel EXCEPT ![c] = Some(SocksConnect(proxy_addr(cfg), Unwrap(host), UriPort(Unwrap(uri[c])), creds))]
                /\ Goto(c, "tunnel")
    /\ UNCHANGED <<proxy, lockOwner, cmList, refreshed, cm_server, uri>>
    /\ UNCHANGED <<waitVars, cfgVars>>

\* TunnelDone with the tunnel's error dropped: the handshake is started regardless
TunnelDone_IgnoresFailure(c) ==
    /\ pc[c] = "tunnel"
    /\ \E st \in {"ok", "failed"} :
          /\ steps' = [steps EXCEPT ![c] = Append(Settle(@, st), [op |-> "client_async_tls_with_config", st |-> "pending"])]
          /\ Goto(c, "handshake")
    /\ UNCHANGED <<proxy, lockOwner, cmList, refreshed, cm_server, uri>>
    /\ UNCHANGED <<tunnel, waitVars, cfgVars>>

\* lines 80/87 and 91: the tunnel attempt ends; on success the handshake over it starts
TunnelDone(c) ==
    /\ pc[c] = "tunnel"
    /\ \/ /\ steps' = [steps EXCEPT ![c] = Append(Settle(@, "ok"), [op |-> "client_async_tls_with_config", st |-> "pending"])]
          /\ Goto(c, "handshake")
       \/ /\ steps' = [steps EXCEPT ![c] = Settle(@, "failed")]
          /\ Return(c, Err("Socks"))
    /\ UNCHANGED <<proxy, lockOwner, cmList, refreshed, cm_server, uri>>
    /\ UNCHANGED <<tunnel, waitVars, cfgVars>>

\* DirectRoute taken whatever the proxy argument is
DirectRoute_IgnoresProxy(c) ==
    /\ pc[c] = "route"
    /\ Log(c, "connect_async", "pending")
    /\ Goto(c, "handshake")
    /\ UNCHANGED <<proxy, lockOwner, cmList, refreshed, cm_server, uri>>
    /\ UNCHANGED <<tunnel, waitVars, cfgVars>>

\* lines 92-94: the direct branch starts connect_async
DirectRoute(c) ==
    /\ pc[c] = "route"
    /\ ~IsSome(proxy[c])
    /\ Log(c, "connect_async", "pending")
    /\ Goto(c, "handshake")
    /\ UNCHANGED <<proxy, lockOwner, cmList, refreshed, cm_server, uri>>
    /\ UNCHANGED <<tunnel, waitVars, cfgVars>>

\* lines 91/93 and 95-98: the TLS/WebSocket handshake ends; split and return
HandshakeDone(c) ==
    /\ pc[c] = "handshake"
    /\ \/ /\ steps' = [steps EXCEPT ![c] = Settle(@, "ok")]
          /\ Return(c, Ok("transport"))
       \/ /\ steps' = [steps EXCEPT ![c] = Settle(@, "failed")]
          /\ Return(c, Err("Tungstenite"))
    /\ UNCHANGED <<proxy, lockOwner, cmList, refreshed, cm_server, uri>>
    /\ UNCHANGED <<tunnel, waitVars, cfgVars>>

connect_to_cm_with_socks5_proxy(c) ==
    \/ BuildClient(c)
    \/ Lock(c)
    \/ Update(c)
    \/ Pick(c)
    \/ ParseUri(c)
    \/ Authority(c)
    \/ BuildRequest(c)
    \/ ProxyRoute(c)
    \/ TunnelDone(c)
    \/ DirectRoute(c)
    \/ HandshakeDone(c)

----------------------------------------------------------------------------
(* wait_for_response and the oneshot channel it is given *)

\* Duration::from_secs(5)
Deadline == 5

\* response bodies a producer may send: one that decodes, one that does not
Bodies == { <<"1">>, <<"x">> }

\* Result<ApiResponseBody, Error> values a producer may send
Messages == {Ok(b) : b \in Bodies} \cup {Err("Network")}

\* ApiResponseBody::into_response::<Msg>()
into_response(body) == IF body # <<>> /\ AllDigits(body) THEN Ok(ParseNat(body)) ELSE Err("Decode")

\* oneshot::Receiver polled: the value sent, RecvError once the sender is gone, else pending
RxPoll(sl, snd) ==
    IF IsSome(sl) THEN Some(Ok(Unwrap(sl)))
    ELSE IF snd = "dropped" THEN Some(Err("RecvError"))
    ELSE None

\* tokio::time::timeout(d, rx) polled after el seconds: the receiver first, then the timer
timeout(d, el, sl, snd) ==
    IF IsSome(RxPoll(sl, snd)) THEN Some(Ok(Unwrap(RxPoll(sl, snd))))
    ELSE IF el >= d THEN Some(Err("Elapsed"))
    ELSE None

\* the match of lines 108-119 on a ready timeout
Respond(t) ==
    IF ~t.ok THEN Err("Timeout")
    ELSE IF ~t.val.ok THEN Err(t.val.err)
    ELSE IF ~t.val.val.ok THEN Err(t.val.val.err)
    ELSE into_response(t.val.val.val)

\* wait_for_response with a deadline one second short
wait_for_response_EarlyDeadline(el, sl, snd) ==
    LET t == timeout(Deadline - 1, el, sl, snd)
    IN  IF IsSome(t) THEN Some(Respond(Unwrap(t))) ELSE None

\* wait_for_response with a closed channel taken for a reply still to come
wait_for_response_ClosedIgnored(el, sl, snd) ==
    LET t == timeout(Deadline, el, sl, "alive")
    IN  IF IsSome(t) THEN Some(Respond(Unwrap(t))) ELSE None

\* wait_for_response polled after el seconds: what it returns, None while it is pending
wait_for_response(el, sl, snd) ==
    LET t == timeout(Deadline, el, sl, snd)
    IN  IF IsSome(t) THEN Some(Respond(Unwrap(t))) ELSE None

\* the caller calls wait_for_response(rx): the timeout is armed
Call(i) ==
    /\ wpc[i] = "idle"
    /\ wpc' = [wpc EXCEPT ![i] = "waiting"]
    /\ elapsed' = [elapsed EXCEPT ![i] = 0]
    /\ UNCHANGED <<sender, slot, rx, wres>>
    /\ UNCHANGED <<connVars, cfgVars>>

\* the producer calls tx.send(m): stored while the receiver lives, handed back otherwise
Send(i, m) ==
    /\ sender[i] = "alive"
    /\ IF rx[i] = "alive"
       THEN slot' = [slot EXCEPT ![i] = Some(m)] /\ sender' = [sender EXCEPT ![i] = "sent"]
       ELSE UNCHANGED slot /\ sender' = [sender EXCEPT ![i] = "refused"]
    /\ UNCHANGED <<wpc, rx, elapsed, wres>>
    /\ UNCHANGED <<connVars, cfgVars>>

\* the producer drops tx without sending
DropSender(i) ==
    /\ sender[i] = "alive"
    /\ sender' = [sender EXCEPT ![i] = "dropped"]
    /\ UNCHANGED <<wpc, slot, rx, elapsed, wres>>
    /\ UNCHANGED <<connVars, cfgVars>>

\* one second passes for every armed timeout; a timer that has reached its deadline
\* stays there (the code only asks whether the deadline has been reached), so any
\* delay between the deadline and the next poll of the task is covered
Tick ==
    /\ \E i \in Waiters : wpc[i] = "waiting" /\ elapsed[i] < Deadline
    /\ elapsed' = [i \in Waiters |-> IF wpc[i] = "waiting" /\ elapsed[i] < Deadline THEN elapsed[i] + 1 ELSE elapsed[i]]
    /\ UNCHANGED <<wpc, sender, slot, rx, wres>>
    /\ UNCHANGED <<connVars, cfgVars>>

\* Resume with the receiver borrowed: it and its slot live on after the return
Resume_KeepsReceiver(i) ==
    /\ wpc[i] = "waiting"
    /\ IsSome(wait_for_response(elapsed[i], slot[i], sender[i]))
    /\ wres' = [wres EXCEPT ![i] = wait_for_response(elapsed[i], slot[i], sender[i])]
    /\ wpc' = [wpc EXCEPT ![i] = "done"]
    /\ elapsed' = [elapsed EXCEPT ![i] = 0]
    /\ UNCHANGED <<sender, slot, rx>>
    /\ UNCHANGED <<connVars, cfgVars>>

\* Resume reading one slot shared by all the pending requests
Resume_SharedSlot(i) ==
    /\ wpc[i] = "waiting"
    /\ \E j \in Waiters :
          /\ IsSome(wait_for_response(elapsed[i], slot[j], sender[i]))
          /\ wres' = [wres EXCEPT ![i] = wait_for_response(elapsed[i], slot[j], sender[i])]
          /\ slot' = [slot EXCEPT ![j] = None]
    /\ wpc' = [wpc EXCEPT ![i] = "done"]
    /\ rx' = [rx EXCEPT ![i] = "dropped"]
    /\ elapsed' = [elapsed EXCEPT ![i] = 0]
    /\ UNCHANGED sender
    /\ UNCHANGED <<connVars, cfgVars>>

\* the task is polled with the receiver or the timer ready: wait_for_response returns,
\* and the receiver it owns is dropped together with whatever its slot holds
Resume(i) ==
    /\ wpc[i] = "waiting"
    /\ IsSome(wait_for_response(elapsed[i], slot[i], sender[i]))
    /\ wres' = [wres EXCEPT ![i] = wait_for_response(elapsed[i], slot[i], sender[i])]
    /\ wpc' = [wpc EXCEPT ![i] = "done"]
    /\ rx' = [rx EXCEPT ![i] = "dropped"]
    /\ slot' = [slot EXCEPT ![i] = None]
    /\ elapsed' = [elapsed EXCEPT ![i] = 0]
    /\ UNCHANGED sender
    /\ UNCHANGED <<connVars, cfgVars>>

----------------------------------------------------------------------------
(* FromStr and Display for Socks5ProxyConfig (proxy.rs), and the strings     *)
(* and configurations they are exercised on.                                 *)

\* lines 115-147: a string starting with "socks5" is parsed as it is, any other
\* string is parsed behind "socks5h://"
from_str(value) ==
    LET Config(read) ==
            IF ~read.ok THEN Err("Url")
            ELSE IF read.val.scheme # Socks5 /\ read.val.scheme # Socks5h THEN Err("UnsupportedScheme")
            ELSE IF ~IsSome(read.val.host) THEN Err("MissingHost")
            ELSE Ok([host |-> Unwrap(read.val.host),
                     port |-> IF IsSome(read.val.port) THEN Unwrap(read.val.port) ELSE ProxyPort,
                     username |-> IF read.val.username = <<>> THEN None ELSE Some(read.val.username),
                     password |-> read.val.password,
                     remote_dns |-> read.val.scheme = Socks5h])
    IN  Config(IF StartsWith(value, Socks5) THEN ParseSocks5Url(SubSeq(value, Len(Socks5) + 1, Len(value)))
               ELSE ParseSocks5Url(<<"h", ":", "/", "/">> \o value))

Mask == <<"*", "*", "*">>

\* Display writing the password where the mask belongs
fmt_WritesPassword(cfg) ==
    LET name == credentials(cfg)[1]
    IN  IF IsSome(name)
        THEN SchemeOf(cfg) \o <<":", "/", "/">> \o Unwrap(name) \o <<":">> \o (IF IsSome(cfg.password) THEN Unwrap(cfg.password) ELSE Mask)
                \o <<"@">> \o cfg.host \o <<":">> \o NatToStr(cfg.port)
        ELSE SchemeOf(cfg) \o <<":", "/", "/">> \o cfg.host \o <<":">> \o NatToStr(cfg.port)

\* lines 150-161: Display, with the mask in the place of the password
fmt(cfg) ==
    LET name == credentials(cfg)[1]
    IN  IF IsSome(name)
        THEN SchemeOf(cfg) \o <<":", "/", "/">> \o Unwrap(name) \o <<":">> \o Mask
                \o <<"@">> \o cfg.host \o <<":">> \o NatToStr(cfg.port)
        ELSE SchemeOf(cfg) \o <<":", "/", "/">> \o cfg.host \o <<":">> \o NatToStr(cfg.port)

\* str::contains(sub)
IsSubstring(sub, s) == \E i \in 0..(Len(s) - Len(sub)) : SubSeq(s, i + 1, i + Len(sub)) = sub

MaxHostLen == 2

HostChars == {"h", "x"}

\* the strings over HostChars of length 0..n
HostTails(n) == UNION { [1..k -> HostChars] : k \in 0..n }

\* host names, including those that begin with the characters socks5
PlainHosts == HostTails(MaxHostLen) \ {<<>>}

Socks5Hosts == { Socks5 \o t : t \in HostTails(MaxHostLen) }

\* IPv6 literals: one as the URL writes it, one with upper-case digits
Ipv6Hosts == { <<"[", ":", ":", "1", "]">>, <<"[", "F", "E", "8", "0", ":", ":", "1", "]">> }

Hosts == PlainHosts \cup Socks5Hosts \cup Ipv6Hosts

Ports == {1, 1080, 65535}

\* the port part of a string: omitted, or a colon and the number
PortText(port) == IF IsSome(port) THEN <<":">> \o NatToStr(Unwrap(port)) ELSE <<>>

PortChoices == {None} \cup { Some(p) : p \in Ports }

PortTexts == { PortText(port) : port \in PortChoices }

BareText(h, pt) == h \o pt

SchemeText(scheme, h, pt) == scheme \o <<":", "/", "/">> \o h \o pt

OtherSchemes == { <<"h", "t", "t", "p">>, <<"s", "o", "c", "k", "s", "4">>, <<"s", "o", "c", "k", "s", "5", "x">> }

Texts ==
    { BareText(h, pt) : h \in Hosts, pt \in PortTexts }
      \cup { SchemeText(sch, h, pt) : sch \in {Socks5, Socks5h} \cup OtherSchemes, h \in Hosts, pt \in PortTexts }
      \cup { SchemeText(sch, ui \o <<"h">>, pt) : sch \in {Socks5, Socks5h}, ui \in { <<"u", "@">>, <<"u", ":", "p", "@">> }, pt \in PortTexts }

Passwords == { <<"p">>, <<"h">>, Mask }

Configs ==
    LET base == { with_remote_dns(new(h, p), d) : h \in Hosts, p \in Ports, d \in BOOLEAN }
    IN  base \cup { with_credentials(c, u, w) : c \in base, u \in { <<>>, <<"u">> }, w \in Passwords }
             \cup { [c EXCEPT !.username = Some(<<"u">>)] : c \in base }
             \cup { [c EXCEPT !.password = Some(w)] : c \in base, w \in Passwords }

\* value.parse::<Socks5ProxyConfig>()
FromStr ==
    /\ IsSome(text) /\ outcome = None
    /\ outcome' = Some(from_str(Unwrap(text)))
    /\ UNCHANGED <<config, text, shown>>
    /\ UNCHANGED <<connVars, waitVars>>

\* config.proxy_url(), the URL kept as its string
ProxyUrl ==
    /\ IsSome(config) /\ text = None /\ outcome = None
    /\ \E url \in {proxy_url(Unwrap(config))} :
          IF url.ok
          THEN text' = Some(UrlString(url.val)) /\ UNCHANGED outcome
          ELSE outcome' = Some(url) /\ UNCHANGED text
    /\ UNCHANGED <<config, shown>>
    /\ UNCHANGED <<connVars, waitVars>>

\* config.to_string()
Show ==
    /\ IsSome(config) /\ shown = None
    /\ shown' = Some(fmt(Unwrap(config)))
    /\ UNCHANGED <<config, text, outcome>>
    /\ UNCHANGED <<connVars, waitVars>>

----------------------------------------------------------------------------
(* Specification of concurrent connect calls on one shared CmListCache.    *)
(* Caller 1 is given any proxy argument; the other callers, who contend    *)
(* for the lock, are given no proxy or the authenticated one.              *)

InitWait ==
    /\ wpc = [i \in Waiters |-> "idle"]
    /\ sender = [i \in Waiters |-> "alive"]
    /\ slot = [i \in Waiters |-> None]
    /\ rx = [i \in Waiters |-> "alive"]
    /\ elapsed = [i \in Waiters |-> 0]
    /\ wres = [i \in Waiters |-> None]

InitConn ==
    /\ pc = [c \in Callers |-> "start"]
    /\ proxy \in {f \in [Callers -> ProxyArgs] : \A c \in Callers : c > 1 => f[c] \in PlainProxyArgs}
    /\ lockOwner = 0
    /\ cmList = {}
    /\ refreshed = [c \in Callers |-> None]
    /\ cm_server = [c \in Callers |-> None]
    /\ uri = [c \in Callers |-> None]
    /\ steps = [c \in Callers |-> <<>>]
    /\ result = [c \in Callers |-> None]
    /\ tunnel = [c \in Callers |-> None]

\* no configuration is being built, parsed or shown
NoConfig ==
    /\ config = None
    /\ text = None
    /\ outcome = None
    /\ shown = None

Init == InitConn /\ InitWait /\ NoConfig

Next == \E c \in Callers : connect_to_cm_with_socks5_proxy(c)

Spec == Init /\ [][Next]_vars

(* Specification of concurrent callers contending for the list's lock.  Every *)
(* refresh terminates and the synchronous pick follows it (Update, Pick); the *)
(* tokio Mutex hands a free lock to a queued waiter (Lock).                   *)

LockInit ==
    /\ pc = [c \in Callers |-> "start"]
    /\ proxy \in [Callers -> PlainProxyArgs]
    /\ lockOwner = 0
    /\ cmList = {}
    /\ refreshed = [c \in Callers |-> None]
    /\ cm_server = [c \in Callers |-> None]
    /\ uri = [c \in Callers |-> None]
    /\ steps = [c \in Callers |-> <<>>]
    /\ result = [c \in Callers |-> None]
    /\ tunnel = [c \in Callers |-> None]
    /\ InitWait /\ NoConfig

LockSpec ==
    /\ LockInit /\ [][Next]_vars
    /\ \A c \in Callers : WF_vars(Lock(c)) /\ WF_vars(Update(c)) /\ WF_vars(Pick(c))

(* Specification of pending requests, each with its own oneshot channel.  Time *)
(* passes, and a task whose receiver or timer is ready is polled again.       *)

NoConn ==
    /\ pc = [c \in Callers |-> "start"]
    /\ proxy = [c \in Callers |-> None]
    /\ lockOwner = 0
    /\ cmList = {}
    /\ refreshed = [c \in Callers |-> None]
    /\ cm_server = [c \in Callers |-> None]
    /\ uri = [c \in Callers |-> None]
    /\ steps = [c \in Callers |-> <<>>]
    /\ result = [c \in Callers |-> None]
    /\ tunnel = [c \in Callers |-> None]

WaitInit == NoConn /\ InitWait /\ NoConfig

WaitNext ==
    \/ \E i \in Waiters : Call(i)
    \/ \E i \in Waiters : \E m \in Messages : Send(i, m)
    \/ \E i \in Waiters : DropSender(i)
    \/ Tick
    \/ \E i \in Waiters : Resume(i)

WaitSpec == WaitInit /\ [][WaitNext]_vars /\ WF_vars(Tick) /\ \A i \in Waiters : WF_vars(Resume(i))

(* Specification of a proxy string being parsed, or a configuration being    *)
(* turned into its URL, parsed back and displayed.                            *)

ConfigInit ==
    /\ NoConn /\ InitWait
    /\ outcome = None /\ shown = None
    /\ \/ config = None /\ text \in { Some(t) : t \in Texts }
       \/ text = None /\ config \in { Some(c) : c \in Configs }

ConfigNext == FromStr \/ ProxyUrl \/ Show

ConfigSpec == ConfigInit /\ [][ConfigNext]_vars

----------------------------------------------------------------------------
(* Properties of connect_to_cm_with_socks5_proxy *)

Ops(c) == [i \in 1..Len(steps[c]) |-> steps[c][i].op]

Attempted(c, op) == \E i \in 1..Len(steps[c]) : steps[c][i].op = op

LastStep(c) == steps[c][Len(steps[c])]

\* positions after the refresh-and-pick block: URL and request, tunnel, handshake
ConnectPhase == {"parse", "authority", "request", "route", "tunnel", "handshake"}

TunnelOps == {"connect", "connect_with_password"}

HandshakeOps == {"client_async_tls_with_config", "connect_async"}

IsPrefix(a, b) == Len(a) <= Len(b) /\ SubSeq(b, 1, Len(a)) = a

\* C1: a caller that is building the URL/request, tunnelling or handshaking does
\* not hold the candidate-list lock, so a caller waiting for the lock can take it
\* whenever no third caller holds it, however long the first caller's connect lasts.
C1_LockNotHeldDuringConnect ==
    \A c \in Callers :
        pc[c] \in ConnectPhase =>
            /\ lockOwner # c
            /\ \A d \in Callers \ {c} :
                  (pc[d] = "lock" /\ lockOwner \notin Callers \ {c}) => ENABLED Lock(d)

\* caller 1 is inside its tunnel attempt while caller 2 holds the lock and has refreshed
C1_Witness == pc[1] = "tunnel" /\ lockOwner = 2 /\ pc[2] = "pick"

\* C2 (as claimed): a call whose proxy has exactly one of username/password starts
\* no refresh, no tunnel and no handshake, and ends with the ProxyConfig error.
C2_PartialCredentialsRejectedBeforeNetwork ==
    \A c \in Callers :
        (IsSome(proxy[c]) /\ PartialCredentials(Unwrap(proxy[c]))) =>
            /\ ~Attempted(c, "update_with_client")
            /\ \A op \in TunnelOps \cup HandshakeOps : ~Attempted(c, op)
            /\ (pc[c] = "done" => result[c] = Some(Err("ProxyConfig")))

\* C3: no tunnel is attempted by a call whose credentials() has exactly one of
\* username/password; connect_with_password only with both, connect only with neither.
C3_TunnelOnlyWithWholeCredentials ==
    \A c \in Callers :
        /\ Attempted(c, "connect_with_password") =>
              IsSome(proxy[c]) /\ IsSome(credentials(Unwrap(proxy[c]))[1]) /\ IsSome(credentials(Unwrap(proxy[c]))[2])
        /\ Attempted(c, "connect") =>
              IsSome(proxy[c]) /\ ~IsSome(credentials(Unwrap(proxy[c]))[1]) /\ ~IsSome(credentials(Unwrap(proxy[c]))[2])
        /\ (IsSome(proxy[c]) /\ PartialCredentials(Unwrap(proxy[c]))) =>
              \A op \in TunnelOps \cup HandshakeOps : ~Attempted(c, op)

\* a call with partial credentials has reached the match and been rejected there
C3_Witness ==
    \E c \in Callers :
        /\ IsSome(proxy[c]) /\ PartialCredentials(Unwrap(proxy[c]))
        /\ pc[c] = "done" /\ result[c] = Some(Err("ProxyConfig"))
        /\ LastStep(c) = [op |-> "credentials", st |-> "failed"]

\* C8: a pick from an empty refreshed list ends the call with NoCmServer: the pick
\* is always possible (no blocking), the lock is released, and nothing after the
\* pick (URL, tunnel, handshake) is ever run by that call.
C8_EmptyListNoCmServer ==
    /\ [](\A c \in Callers :
            /\ pc[c] = "pick" => ENABLED Pick(c)
            /\ result[c] = Some(Err("NoCmServer")) =>
                  /\ pc[c] = "done"
                  /\ lockOwner # c
                  /\ LastStep(c) = [op |-> "pick_random_websocket_server", st |-> "failed"]
                  /\ \A i \in 1..Len(steps[c]) :
                        steps[c][i].op \in {"build_reqwest_client", "update", "update_with_client", "pick_random_websocket_server"})
    /\ [][\A c \in Callers :
            (pc[c] = "pick" /\ cmList = {} /\ pc'[c] # "pick") =>
                /\ result'[c] = Some(Err("NoCmServer"))
                /\ pc'[c] = "done"
                /\ lockOwner' # c]_vars

\* a call has returned NoCmServer
C8_Witness == \E c \in Callers : result[c] = Some(Err("NoCmServer")) /\ cmList = {}

\* C9: at most one caller is between the start of its refresh and its pick, that
\* caller holds the lock, the list it picks from is the list its own refresh left,
\* and the endpoint it gets is an element of that list.
C9_RefreshAndPickAtomic ==
    /\ [](/\ Cardinality({c \in Callers : pc[c] \in {"update", "pick"}}) <= 1
          /\ \A c \in Callers :
                /\ pc[c] \in {"update", "pick"} => lockOwner = c
                /\ pc[c] = "pick" => refreshed[c] = Some(cmList))
    /\ [][\A c \in Callers :
            (pc[c] = "pick" /\ pc'[c] = "parse") =>
                /\ IsSome(cm_server'[c])
                /\ Unwrap(cm_server'[c]) \in Unwrap(refreshed[c])]_vars

\* caller 2 has picked from its refreshed list while caller 1 waits for the lock
C9_Witness ==
    /\ pc[1] = "lock"
    /\ pc[2] = "parse"
    /\ IsSome(cm_server[2])
    /\ Unwrap(cm_server[2]) \in cmList

\* the steps of a successful call, in order
DirectOrder == <<"update", "pick_random_websocket_server", "parse_uri", "authority", "request", "connect_async">>

ProxiedOrder(arm) == <<"build_reqwest_client", "update_with_client", "pick_random_websocket_server", "parse_uri", "authority", "request", "uri_host", "credentials", arm, "client_async_tls_with_config">>

StepOrder(c) ==
    IF IsSome(proxy[c])
    THEN ProxiedOrder(IF IsSome(Unwrap(proxy[c]).password) THEN "connect_with_password" ELSE "connect")
    ELSE DirectOrder

\* the error each step fails with
ErrorOf(op) ==
    CASE op = "build_reqwest_client" -> "ProxyConfig"
      [] op \in {"update", "update_with_client"} -> "CmListUpdate"
      [] op = "pick_random_websocket_server" -> "NoCmServer"
      [] op = "parse_uri" -> "InvalidUri"
      [] op \in {"authority", "uri_host"} -> "UrlNoHostName"
      [] op = "request" -> "Http"
      [] op = "credentials" -> "ProxyConfig"
      [] op \in TunnelOps -> "Socks"
      [] op \in HandshakeOps -> "Tungstenite"

\* C10: the steps run in order and each step but the last one run has succeeded; a
\* transport is returned only after every step has succeeded; an error returned is
\* the error of the last step run, which failed; nothing is run after a failure.
C10_NoFailureSwallowed ==
    \A c \in Callers :
        /\ IsPrefix(Ops(c), StepOrder(c))
        /\ \A i \in 1..(Len(steps[c]) - 1) : steps[c][i].st = "ok"
        /\ (pc[c] = "done") = IsSome(result[c])
        /\ ~IsSome(result[c]) => (steps[c] = <<>> \/ LastStep(c).st \in {"ok", "pending"})
        /\ (IsSome(result[c]) /\ Unwrap(result[c]).ok) =>
              /\ Ops(c) = StepOrder(c)
              /\ LastStep(c).st = "ok"
        /\ (IsSome(result[c]) /\ ~Unwrap(result[c]).ok) =>
              /\ LastStep(c).st = "failed"
              /\ Unwrap(result[c]).err = ErrorOf(LastStep(c).op)

\* one call has returned a transport through the proxy, another the error of a failed tunnel
C10_Witness ==
    \E c, d \in Callers :
        /\ IsSome(proxy[c]) /\ result[c] = Some(Ok("transport"))
        /\ result[d] = Some(Err("Socks"))
        /\ LastStep(d).op \in TunnelOps

----------------------------------------------------------------------------
(* Properties of wait_for_response *)

\* the step is wait_for_response(i) returning
Returns(i) == wpc[i] = "waiting" /\ wpc'[i] = "done"

\* the step is the producer's send on channel i
Sends(i) == sender[i] = "alive" /\ sender'[i] \in {"sent", "refused"}

\* C4: a reply sent before the deadline is stored and, when it decodes, is what the
\* call returns; Timeout is returned only when the producer has neither sent nor
\* dropped, and never before 5 seconds have elapsed; a call whose producer stays
\* silent returns Timeout, and every call returns eventually (no call stays
\* pending for ever: again and again no call is pending).
C4_ReplyOrTimeoutAtDeadline ==
    /\ [][\A i \in Waiters :
            /\ (Sends(i) /\ (wpc[i] = "idle" \/ (wpc[i] = "waiting" /\ elapsed[i] < Deadline))) =>
                  sender'[i] = "sent" /\ IsSome(slot'[i])
            /\ (Returns(i) /\ IsSome(slot[i]) /\ Unwrap(slot[i]).ok /\ into_response(Unwrap(slot[i]).val).ok) =>
                  wres'[i] = Some(Ok(into_response(Unwrap(slot[i]).val).val))
            /\ (Returns(i) /\ wres'[i] = Some(Err("Timeout"))) =>
                  elapsed[i] >= Deadline /\ sender[i] = "alive" /\ ~IsSome(slot[i])
            /\ (Returns(i) /\ sender[i] = "alive") => wres'[i] = Some(Err("Timeout"))]_vars
    /\ [](\A i \in Waiters : (sender[i] = "sent" /\ wpc[i] # "done") => IsSome(slot[i]))
    /\ []<>(\A i \in Waiters : wpc[i] # "waiting")

\* one call has returned a reply's value, another has timed out on a silent producer
C4_Witness ==
    \E i, j \in Waiters :
        /\ wres[i] = Some(Ok(1)) /\ sender[i] = "sent"
        /\ wres[j] = Some(Err("Timeout")) /\ sender[j] = "alive"

\* C5: a call returns once, with a decoded reply, a propagated failure or Timeout,
\* and its result never changes afterwards; the receiver and its slot are gone when
\* it has returned, so a reply sent after that is handed back to the producer and
\* reaches no wait.
C5_SlotConsumedOnce ==
    /\ [](\A i \in Waiters :
            /\ (wpc[i] = "done") = IsSome(wres[i])
            /\ wpc[i] = "done" => (rx[i] = "dropped" /\ ~IsSome(slot[i]))
            /\ IsSome(wres[i]) =>
                  \/ Unwrap(wres[i]).ok /\ Unwrap(wres[i]).val \in {into_response(b).val : b \in {x \in Bodies : into_response(x).ok}}
                  \/ ~Unwrap(wres[i]).ok /\ Unwrap(wres[i]).err \in {"RecvError", "Network", "Decode", "Timeout"})
    /\ [][\A i \in Waiters :
            /\ IsSome(wres[i]) => (wres'[i] = wres[i] /\ wpc'[i] = "done")
            /\ (Sends(i) /\ wpc[i] = "done") =>
                  sender'[i] = "refused" /\ wres' = wres /\ slot' = slot /\ wpc' = wpc]_vars

\* a call has timed out and the reply sent afterwards was handed back
C5_Witness == \E i \in Waiters : wres[i] = Some(Err("Timeout")) /\ sender[i] = "refused"

\* C6: a failure that is ready is what the call returns: RecvError when the sender
\* was dropped without sending, the producer's error when it sent one, the decode
\* error when the body does not decode; and the call can return at once, whatever
\* time is left to the deadline.
C6_FailurePropagated ==
    /\ [][\A i \in Waiters :
            /\ (Returns(i) /\ ~IsSome(slot[i]) /\ sender[i] = "dropped") =>
                  wres'[i] = Some(Err("RecvError"))
            /\ (Returns(i) /\ IsSome(slot[i]) /\ ~Unwrap(slot[i]).ok) =>
                  wres'[i] = Some(Err(Unwrap(slot[i]).err))
            /\ (Returns(i) /\ IsSome(slot[i]) /\ Unwrap(slot[i]).ok /\ ~into_response(Unwrap(slot[i]).val).ok) =>
                  wres'[i] = Some(Err("Decode"))]_vars
    /\ [](\A i \in Waiters :
            (wpc[i] = "waiting" /\ (IsSome(slot[i]) \/ sender[i] = "dropped")) => ENABLED Resume(i))

\* the three failures, each returned by some call
C6_Witness ==
    /\ \E i \in Waiters : wres[i] = Some(Err("RecvError")) /\ sender[i] = "dropped"
    /\ \E i \in Waiters : wres[i] \in {Some(Err("Network")), Some(Err("Decode"))} /\ sender[i] = "sent"

\* what belongs to one pending request
Own(i) == <<wpc[i], sender[i], slot[i], rx[i], wres[i]>>

\* C7: a step that sends on, closes, resolves or times out one pending request
\* leaves every other pending request as it was, and what a call returns is
\* decided by its own channel and timer alone.
C7_WaitsIndependent ==
    [][\A i \in Waiters :
         /\ Own(i)' # Own(i) => \A j \in Waiters \ {i} : Own(j)' = Own(j)
         /\ Returns(i) => wres'[i] = wait_for_response(elapsed[i], slot[i], sender[i])]_vars

\* two pending requests have ended differently: one timed out, the other got its reply
C7_Witness ==
    \E i, j \in Waiters :
        /\ wres[i] = Some(Err("Timeout"))
        /\ wres[j] = Some(Ok(1))

----------------------------------------------------------------------------
(* Route, credentials, lock release and client construction *)

\* C11: with a proxy the refresh is update_with_client, connect_async is never
\* called, and the only handshake is the one over a tunnel that went to the
\* proxy's (host, port) asking for the endpoint's host and its port or 443;
\* without a proxy the refresh is update and no tunnel is ever attempted.
C11_RouteFollowsProxyArgument ==
    \A c \in Callers :
        /\ IsSome(proxy[c]) =>
              /\ ~Attempted(c, "update") /\ ~Attempted(c, "connect_async")
              /\ (\E op \in TunnelOps : Attempted(c, op)) = IsSome(tunnel[c])
              /\ Attempted(c, "client_async_tls_with_config") =>
                    (IsSome(tunnel[c]) /\ \E i \in 1..Len(steps[c]) : steps[c][i].op \in TunnelOps /\ steps[c][i].st = "ok")
              /\ IsSome(tunnel[c]) =>
                    /\ Unwrap(tunnel[c]).proxy_addr = <<Unwrap(proxy[c]).host, Unwrap(proxy[c]).port>>
                    /\ cm_server[c] = Some(<<"a">>) => Unwrap(tunnel[c]).target = << <<"a">>, 443 >>
        /\ ~IsSome(proxy[c]) =>
              /\ ~Attempted(c, "update_with_client") /\ ~Attempted(c, "build_reqwest_client")
              /\ \A op \in TunnelOps \cup {"client_async_tls_with_config"} : ~Attempted(c, op)
              /\ ~IsSome(tunnel[c])

\* caller 1 handshakes over its tunnel to the proxy while caller 2 handshakes directly
C11_Witness ==
    /\ pc[1] = "handshake" /\ IsSome(proxy[1]) /\ IsSome(tunnel[1])
    /\ Unwrap(tunnel[1]).proxy_addr = << <<"h">>, 1080 >>
    /\ pc[2] = "handshake" /\ ~IsSome(proxy[2]) /\ Attempted(2, "connect_async")

\* the config of with_credentials("", "p") on a well-formed proxy
EmptyUsernameProxy == with_credentials(GoodProxy, <<>>, <<"p">>)

\* C16: for with_credentials("", pass) credentials() is (absent, pass); a proxied
\* call with that config never attempts a tunnel or a handshake, never returns a
\* transport, and once it has reached the credentials match it has returned the
\* proxy-configuration error of the partial-credentials arm.
C16_EmptyUsernameIsPartial ==
    /\ EmptyUsernameProxy.username = Some(<<>>)
    /\ credentials(EmptyUsernameProxy) = <<None, Some(<<"p">>)>>
    /\ \A c \in Callers :
          proxy[c] = Some(EmptyUsernameProxy) =>
              /\ \A op \in TunnelOps \cup HandshakeOps : ~Attempted(c, op)
              /\ tunnel[c] = None
              /\ pc[c] \notin {"tunnel", "handshake"}
              /\ pc[c] = "done" => ~Unwrap(result[c]).ok
              /\ Attempted(c, "uri_host") =>
                    /\ pc[c] = "done"
                    /\ LastStep(c) = [op |-> "credentials", st |-> "failed"]
                    /\ result[c] = Some(Err("ProxyConfig"))

\* the call with the empty username has got to the match and taken its error arm
C16_Witness ==
    /\ proxy[1] = Some(EmptyUsernameProxy)
    /\ pc[1] = "done"
    /\ Attempted(1, "parse_uri") /\ Attempted(1, "request")
    /\ LastStep(1) = [op |-> "credentials", st |-> "failed"]
    /\ result[1] = Some(Err("ProxyConfig"))

\* the first step of call c was a failed build of the proxied client
BuildFailed(c) ==
    steps[c] # <<>> /\ steps[c][1] = [op |-> "build_reqwest_client", st |-> "failed"]

\* C18: a call whose proxied client cannot be built has returned the
\* proxy-configuration error with nothing else attempted, does not hold the lock
\* and has refreshed nothing; the step that returns the error leaves the lock and
\* the shared list as they were.
C18_BuildFailureLeavesListAlone ==
    /\ [](\A c \in Callers :
            BuildFailed(c) =>
                /\ pc[c] = "done"
                /\ result[c] = Some(Err("ProxyConfig"))
                /\ Len(steps[c]) = 1
                /\ lockOwner # c
                /\ refreshed[c] = None)
    /\ [][\A c \in Callers :
            (~BuildFailed(c) /\ BuildFailed(c)') =>
                /\ pc[c] = "start"
                /\ UNCHANGED <<lockOwner, cmList, refreshed, cm_server, tunnel>>]_vars

\* the build has failed for caller 1 while caller 2 holds the lock on a refreshed list
C18_Witness ==
    /\ BuildFailed(1) /\ pc[1] = "done" /\ result[1] = Some(Err("ProxyConfig"))
    /\ lockOwner = 2 /\ cmList # {}

\* C17: a call that has returned, with whatever result, does not hold the lock,
\* and the lock is only ever held inside the refresh-and-pick block; a caller
\* leaves the wait for the lock only by acquiring it; and, every refresh
\* terminating, no caller is left waiting for the lock.
C17_LockReleasedOnEveryExit ==
    /\ [](\A c \in Callers :
            /\ pc[c] = "done" => lockOwner # c
            /\ lockOwner = c => pc[c] \in {"update", "pick"})
    /\ [][\A c \in Callers : (pc[c] = "lock" /\ pc'[c] # "lock") => lockOwner' = c]_vars
    /\ []<>(\A c \in Callers : pc[c] # "lock")

\* caller 1 has returned the refresh error and caller 2, who had to wait, holds the lock
C17_Witness ==
    /\ pc[1] = "done" /\ result[1] = Some(Err("CmListUpdate"))
    /\ lockOwner = 2 /\ pc[2] = "update"

----------------------------------------------------------------------------
(* Properties of FromStr, proxy_url and Display *)

\* C12: a string scheme://host[:port] whose scheme is neither socks5 nor socks5h
\* is never parsed to an Ok configuration.
C12_OtherSchemesRejected ==
    \A sch \in OtherSchemes : \A h \in Hosts : \A pt \in PortTexts :
        (text = Some(SchemeText(sch, h, pt)) /\ IsSome(outcome)) => ~Unwrap(outcome).ok

\* C13: a bare host[:port], whatever valid host it names, is parsed to the
\* configuration with that host, the given port or 1080, remote DNS and no credentials.
C13_BareHostAccepted ==
    \A h \in Hosts : \A port \in PortChoices :
        (config = None /\ text = Some(BareText(h, PortText(port))) /\ IsSome(outcome)) =>
            /\ Unwrap(outcome).ok
            /\ Unwrap(outcome).val = new(h, IF IsSome(port) THEN Unwrap(port) ELSE 1080)

\* C14 as stated: for every host and port, proxy_url of new(host, port) succeeds,
\* and from_str of the URL's string is Ok with the same host and port, remote
\* DNS and no credentials.
C14_NewRoundTrips ==
    \A h \in Hosts : \A p \in Ports :
        config = Some(new(h, p)) =>
            /\ proxy_url(new(h, p)).ok
            /\ IsSome(outcome) =>
                  /\ IsSome(text)
                  /\ Unwrap(outcome).ok
                  /\ Unwrap(outcome).val.host = h
                  /\ Unwrap(outcome).val.port = p
                  /\ Unwrap(outcome).val.remote_dns = TRUE
                  /\ credentials(Unwrap(outcome).val) = <<None, None>>

\* C15 as stated: what Display writes never has the password as a substring, and
\* has the mask whenever a username is stored.
C15_PasswordNeverSubstring ==
    (IsSome(config) /\ IsSome(shown)) =>
        /\ IsSome(Unwrap(config).password) => ~IsSubstring(Unwrap(Unwrap(config).password), Unwrap(shown))
        /\ IsSome(Unwrap(config).username) => IsSubstring(Mask, Unwrap(shown))

\* C15: what Display writes does not depend on the password (it is what is
\* written for the same configuration with no or any other password, so the
\* password is a substring only where the other parts spell it), and it has
\* the mask whenever credentials() reports a username, that is a non-empty one.
C15_DisplayIndependentOfPassword ==
    (IsSome(config) /\ IsSome(shown)) =>
        /\ \A w \in {None} \cup { Some(pw) : pw \in Passwords } :
              Unwrap(shown) = fmt([Unwrap(config) EXCEPT !.password = w])
        /\ IsSome(Unwrap(config).password) =>
              (IsSubstring(Unwrap(Unwrap(config).password), Unwrap(shown))
                 => IsSubstring(Unwrap(Unwrap(config).password), fmt([Unwrap(config) EXCEPT !.password = None])))
        /\ (IsSome(Unwrap(config).username) /\ Unwrap(Unwrap(config).username) # <<>>) => IsSubstring(Mask, Unwrap(shown))
        /\ (Unwrap(config).password = Some(<<"p">>)) => ~IsSubstring(<<"p">>, Unwrap(shown))

\* a configuration with username u and password p has been displayed, masked
C15_Witness ==
    /\ IsSome(config) /\ IsSome(shown)
    /\ Unwrap(config).username = Some(<<"u">>) /\ Unwrap(config).password = Some(<<"p">>)
    /\ IsSubstring(<<"u", ":", "*", "*", "*", "@">>, Unwrap(shown))
    /\ ~IsSubstring(<<"p">>, Unwrap(shown))

====
